---- MODULE Spec2Model ----
(***************************************************************************)
(* Verification model of terraform-docs-mcp: the rate limiter, the TTL     *)
(* caches and the schema-extraction pipeline.                              *)
(*                                                                         *)
(* Every asynchronous function is cut at its await points: the code        *)
(* between two awaits runs to completion on the single JavaScript thread   *)
(* and is one atomic action here.                                          *)
(***************************************************************************)
EXTENDS Integers, Sequences, FiniteSets, TLC

(***************************************************************************)
(* Rate limiter (src/polyfill.ts, class RateLimiter).  Time is Date.now()  *)
(* in milliseconds.                                                        *)
(***************************************************************************)
MIN_INTERVAL == 1000
MAX_REQUESTS_PER_HOUR == 50
MAX_REQUESTS_PER_MINUTE == 8
MINUTE_MS == 60 * 1000
HOUR_MS == 60 * 60 * 1000

\* Number of concurrent callers of throttle() and total number of calls.
NumCallers == 2
MaxCalls == 9

Callers == 1..NumCallers

\* Date.now() when the limiter is constructed.  lastRequest starts at 0 and
\* the real clock is far beyond MIN_INTERVAL, so the first call never waits
\* for the minimum interval; any start value >= MIN_INTERVAL behaves alike.
ConstructedAt == MIN_INTERVAL

VARIABLES
    now,                 \* Date.now()
    lastRequest,         \* RateLimiter.lastRequest
    requestCount,        \* RateLimiter.requestCount
    resetTime,           \* RateLimiter.resetTime
    minuteRequestCount,  \* RateLimiter.minuteRequestCount
    minuteResetTime,     \* RateLimiter.minuteResetTime
    thr,                 \* per caller: position inside throttle()
    nextSeq,             \* arrival number given to the next throttle() call
    grantLog,            \* history: the permits granted, in grant order
    underTest,           \* which cache class the run exercises
    enabled,             \* config.cache.enabled
    cache,               \* Cache.cache, a Map in insertion order
    serviceCache,        \* CacheService.cache, a Map in insertion order
    lastRead,            \* history: the last get/has call and what it answered
    lastEvict,           \* history: what the last set call evicted and kept
    maxSize,             \* maxSize of the cache under test (constructor argument)
    req,                 \* arguments of the extraction calls of the run
    callNo,              \* number of extraction calls started
    ex,                  \* the extraction call in progress
    githubContentCache,  \* githubContentCache of api/github.ts: path -> body
    githubApiCache,      \* githubApiCache of api/github.ts: search key -> items
    served,              \* number of 2xx file responses cached so far
    tool,                \* the tool request being handled and its response
    gen,                 \* the generateTerraformConfig calls of the run and their texts
    http,                \* the logical HTTP request in progress and its history
    fx                   \* the fetchResourceExamples call of the run: answers and result

limiterVars == <<now, lastRequest, requestCount, resetTime,
                 minuteRequestCount, minuteResetTime, thr, nextSeq, grantLog>>

cacheVars == <<underTest, enabled, maxSize, cache, serviceCache, lastRead, lastEvict>>

extractVars == <<req, callNo, ex, githubContentCache, githubApiCache, served, tool>>

generatorVars == <<gen>>

httpVars == <<http>>

exampleVars == <<fx>>

vars == <<limiterVars, cacheVars, extractVars, generatorVars, httpVars, exampleVars>>

Idle == [pc |-> "idle", wakeAt |-> 0, seq |-> 0]

InitLimiter ==
    /\ now = ConstructedAt
    /\ lastRequest = 0
    /\ requestCount = 0
    /\ resetTime = ConstructedAt + HOUR_MS
    /\ minuteRequestCount = 0
    /\ minuteResetTime = ConstructedAt + MINUTE_MS
    /\ thr = [c \in Callers |-> Idle]
    /\ nextSeq = 1
    /\ grantLog = <<>>

\* Lines 77-80: the counters are updated and the permit is granted.
UpdateCounters(c, rc, mc, seq) ==
    /\ requestCount' = rc + 1
    /\ minuteRequestCount' = mc + 1
    /\ lastRequest' = now
    /\ thr' = [thr EXCEPT ![c] = Idle]
    /\ grantLog' = Append(grantLog, [caller |-> c, seq |-> seq, at |-> now])

\* sleep(ms): the caller is suspended on a timer due at now + ms.
Sleep(c, kind, ms, seq) ==
    /\ thr' = [thr EXCEPT ![c] = [pc |-> kind, wakeAt |-> now + ms, seq |-> seq]]
    /\ UNCHANGED <<lastRequest, grantLog>>

\* throttle() from its first line up to its first await (or to its return
\* when it does not wait at all).
throttle(c, seq) ==
    LET hourOver == now > resetTime
        rc == IF hourOver THEN 0 ELSE requestCount
        rt == IF hourOver THEN now + HOUR_MS ELSE resetTime
        minuteOver == now > minuteResetTime
        mc == IF minuteOver THEN 0 ELSE minuteRequestCount
        mrt == IF minuteOver THEN now + MINUTE_MS ELSE minuteResetTime
        timeSinceLastRequest == now - lastRequest
    IN  /\ resetTime' = rt
        /\ minuteResetTime' = mrt
        /\ IF rc >= MAX_REQUESTS_PER_HOUR
           THEN /\ Sleep(c, "limitSleep", rt - now, seq)
                /\ requestCount' = rc
                /\ minuteRequestCount' = mc
           ELSE IF mc >= MAX_REQUESTS_PER_MINUTE
           THEN /\ Sleep(c, "limitSleep", mrt - now, seq)
                /\ requestCount' = rc
                /\ minuteRequestCount' = mc
           ELSE IF timeSinceLastRequest < MIN_INTERVAL
           THEN /\ Sleep(c, "intervalSleep", MIN_INTERVAL - timeSinceLastRequest, seq)
                /\ requestCount' = rc
                /\ minuteRequestCount' = mc
           ELSE UpdateCounters(c, rc, mc, seq)

\* A caller invokes throttle().
Acquire(c) ==
    /\ thr[c].pc = "idle"
    /\ nextSeq <= MaxCalls
    /\ nextSeq' = nextSeq + 1
    /\ throttle(c, nextSeq)
    /\ UNCHANGED <<now, cacheVars, generatorVars, httpVars, exampleVars, extractVars>>

\* Lines 58-59 and 66-67: the limit sleep is over, throttle() runs again.
RetryAfterReset(c) ==
    /\ thr[c].pc = "limitSleep"
    /\ now >= thr[c].wakeAt
    /\ throttle(c, thr[c].seq)
    /\ UNCHANGED <<now, nextSeq, cacheVars, generatorVars, httpVars, exampleVars, extractVars>>

\* Lines 74-80: the minimum-interval sleep is over, the counters are updated
\* without looking at the limits again.
ResumeAfterInterval(c) ==
    /\ thr[c].pc = "intervalSleep"
    /\ now >= thr[c].wakeAt
    /\ UpdateCounters(c, requestCount, minuteRequestCount, thr[c].seq)
    /\ UNCHANGED <<now, resetTime, minuteResetTime, nextSeq, cacheVars, generatorVars, httpVars, exampleVars, extractVars>>

\* Time passes while some caller waits for a timer that is not yet due.
\* Timers may fire late (another caller's timer can still be pending), never
\* early.
TickLimiter ==
    /\ \E c \in Callers : thr[c].pc # "idle" /\ thr[c].wakeAt > now
    /\ now' = now + MIN_INTERVAL
    /\ UNCHANGED <<lastRequest, requestCount, resetTime, minuteRequestCount,
                   minuteResetTime, thr, nextSeq, grantLog, cacheVars, generatorVars, httpVars, exampleVars, extractVars>>

NextLimiter ==
    \/ \E c \in Callers : Acquire(c)
    \/ \E c \in Callers : RetryAfterReset(c)
    \/ \E c \in Callers : ResumeAfterInterval(c)
    \/ TickLimiter

(***************************************************************************)
(* Caches: class Cache (src/src/cache.ts) and class CacheService           *)
(* (src/unnamed/part_019, lines 84-295).  A JavaScript Map keeps its keys  *)
(* in insertion order, so a Map is a sequence of entries here.             *)
(***************************************************************************)
\* Constructor arguments of the Cache under test and the CacheService
\* default TTL, kept small.
CacheTtl == 1
MaxSize == 1
DefaultTtl == 2
\* Clock range of a cache run, in ticks after construction.
MaxCacheTime == 3

\* Capacity and keys of the runs that fill a cache, and the capacity of a
\* CacheService large enough for a fifth of it to be more than one entry.
EvictMaxSize == 2
BulkMaxSize == 6
EvictKeys == {"k1", "k2", "k3"}
BulkKeys == <<"b1", "b2", "b3", "b4">>

Keys == {"k1", "k2"}
Values == {"v1", "v2"}
\* TTL arguments of CacheService.set; 0 stands for an omitted argument.
TtlArgs == {0, 1}

NoRead == [op |-> "none", hit |-> FALSE, expired |-> FALSE]

\* What a get/has call answered: absent (expired tells that the entry was
\* stored but past its TTL), or present with the entry that was read.
Miss(op, k, expired) ==
    [op |-> op, key |-> k, hit |-> FALSE, expired |-> expired, at |-> now]
Hit(op, k, value, timestamp, ttl) ==
    [op |-> op, key |-> k, hit |-> TRUE, expired |-> FALSE, at |-> now,
     value |-> value, timestamp |-> timestamp, ttl |-> ttl]

\* What a set call evicted: whether the Map was full, the key that was
\* set, the entries the call removed and the entries it left, before the
\* new entry is stored.
NoEvict == [triggered |-> FALSE, key |-> "undefined", removed |-> <<>>, kept |-> <<>>]
Stamp(m) == [i \in DOMAIN m |-> [key |-> m[i].key, timestamp |-> m[i].timestamp]]
Evicted(k, before, after) ==
    [triggered |-> TRUE,
     key |-> k,
     removed |-> Stamp(SelectSeq(before,
                     LAMBDA e : \A i \in DOMAIN after : after[i].key # e.key)),
     kept |-> Stamp(after)]

InitCache ==
    /\ underTest \in {"Cache", "CacheService"}
    /\ enabled \in BOOLEAN
    /\ cache = <<>>
    /\ serviceCache = <<>>
    /\ lastRead = NoRead
    /\ lastEvict = NoEvict
    /\ maxSize = MaxSize

\* Map.has / Map.get / Map.delete / Map.set on a sequence of entries.
MapHas(m, k) == \E i \in DOMAIN m : m[i].key = k
MapGet(m, k) == m[CHOOSE i \in DOMAIN m : m[i].key = k]
MapDelete(m, k) == SelectSeq(m, LAMBDA e : e.key # k)
MapSet(m, e) ==
    IF MapHas(m, e.key)
    THEN [i \in DOMAIN m |-> IF m[i].key = e.key THEN e ELSE m[i]]
    ELSE Append(m, e)

\* The age test with the operands of the subtraction swapped.
CacheExpired_swapped(item) == item.timestamp - now > CacheTtl

\* cache.ts lines 24 and 103: the expiry test of Cache.
CacheExpired(item) == now - item.timestamp > CacheTtl

\* Cache.get, cache.ts lines 17-30.
CacheGet(k) ==
    /\ underTest = "Cache"
    /\ IF ~enabled \/ ~MapHas(cache, k)
       THEN /\ lastRead' = Miss("get", k, FALSE)
            /\ UNCHANGED cache
       ELSE LET item == MapGet(cache, k) IN
            IF CacheExpired(item)
            THEN /\ cache' = MapDelete(cache, k)
                 /\ lastRead' = Miss("get", k, TRUE)
            ELSE /\ lastRead' = Hit("get", k, item.value, item.timestamp, CacheTtl)
                 /\ UNCHANGED cache
    /\ UNCHANGED <<limiterVars, extractVars, generatorVars, httpVars, exampleVars, underTest, enabled, maxSize, serviceCache, lastEvict>>

\* Cache.has, cache.ts lines 96-109.
CacheHas(k) ==
    /\ underTest = "Cache"
    /\ IF ~enabled \/ ~MapHas(cache, k)
       THEN /\ lastRead' = Miss("has", k, FALSE)
            /\ UNCHANGED cache
       ELSE LET item == MapGet(cache, k) IN
            IF CacheExpired(item)
            THEN /\ cache' = MapDelete(cache, k)
                 /\ lastRead' = Miss("has", k, TRUE)
            ELSE /\ lastRead' = Hit("has", k, item.value, item.timestamp, CacheTtl)
                 /\ UNCHANGED cache
    /\ UNCHANGED <<limiterVars, extractVars, generatorVars, httpVars, exampleVars, underTest, enabled, maxSize, serviceCache, lastEvict>>

\* Cache.getOldestEntry, cache.ts lines 55-89: the key of the first entry
\* whose timestamp is below every earlier one and below Date.now(); the
\* first key of the Map when no timestamp is below Date.now().
RECURSIVE OldestScan(_, _, _, _)
OldestScan(m, i, oldestKey, oldestTimestamp) ==
    IF i > Len(m) THEN oldestKey
    ELSE IF m[i].timestamp < oldestTimestamp
         THEN OldestScan(m, i + 1, m[i].key, m[i].timestamp)
         ELSE OldestScan(m, i + 1, oldestKey, oldestTimestamp)

\* The key stored last.
getOldestEntry_newest(m) ==
    IF Len(m) = 0 THEN "undefined" ELSE m[Len(m)].key

getOldestEntry(m) ==
    LET oldestKey == OldestScan(m, 1, "undefined", now)
    IN  IF Len(m) = 0 THEN "undefined"
        ELSE IF oldestKey = "undefined" THEN m[1].key
        ELSE oldestKey

\* Cache.set, cache.ts lines 37-49.
CacheSet(k, v) ==
    /\ underTest = "Cache"
    /\ IF ~enabled
       THEN UNCHANGED <<cache, lastEvict>>
       ELSE LET afterEvict ==
                    IF Len(cache) >= maxSize /\ getOldestEntry(cache) # "undefined"
                    THEN MapDelete(cache, getOldestEntry(cache))
                    ELSE cache
            IN  /\ cache' = MapSet(afterEvict, [key |-> k, value |-> v, timestamp |-> now])
                /\ lastEvict' = IF Len(cache) >= maxSize
                                THEN Evicted(k, cache, afterEvict) ELSE NoEvict
    /\ UNCHANGED <<limiterVars, extractVars, generatorVars, httpVars, exampleVars, underTest, enabled, maxSize, serviceCache, lastRead>>

\* Cache.clear, cache.ts lines 114-116.
CacheClear ==
    /\ underTest = "Cache"
    /\ cache' = <<>>
    /\ UNCHANGED <<limiterVars, extractVars, generatorVars, httpVars, exampleVars, underTest, enabled, maxSize, serviceCache, lastRead,
                   lastEvict>>

\* part_019 lines 113, 172, 232: the expiry test of CacheService.
EntryExpired(entry) == now - entry.timestamp > entry.ttl

\* CacheService.get, part_019 lines 105-119.
ServiceGet(k) ==
    /\ underTest = "CacheService"
    /\ IF ~MapHas(serviceCache, k)
       THEN /\ lastRead' = Miss("get", k, FALSE)
            /\ UNCHANGED serviceCache
       ELSE LET entry == MapGet(serviceCache, k) IN
            IF EntryExpired(entry)
            THEN /\ serviceCache' = MapDelete(serviceCache, k)
                 /\ lastRead' = Miss("get", k, TRUE)
            ELSE /\ lastRead' = Hit("get", k, entry.data, entry.timestamp, entry.ttl)
                 /\ UNCHANGED serviceCache
    /\ UNCHANGED <<limiterVars, extractVars, generatorVars, httpVars, exampleVars, underTest, enabled, maxSize, cache, lastEvict>>

\* CacheService.has, part_019 lines 164-178.
ServiceHas(k) ==
    /\ underTest = "CacheService"
    /\ IF ~MapHas(serviceCache, k)
       THEN /\ lastRead' = Miss("has", k, FALSE)
            /\ UNCHANGED serviceCache
       ELSE LET entry == MapGet(serviceCache, k) IN
            IF EntryExpired(entry)
            THEN /\ serviceCache' = MapDelete(serviceCache, k)
                 /\ lastRead' = Miss("has", k, TRUE)
            ELSE /\ lastRead' = Hit("has", k, entry.data, entry.timestamp, entry.ttl)
                 /\ UNCHANGED serviceCache
    /\ UNCHANGED <<limiterVars, extractVars, generatorVars, httpVars, exampleVars, underTest, enabled, maxSize, cache, lastEvict>>

\* Array.prototype.sort by timestamp, oldest first; the sort is stable, so
\* equal timestamps keep their Map order.
RECURSIVE SortByTimestamp(_)
SortByTimestamp(m) ==
    IF Len(m) = 0 THEN <<>>
    ELSE LET first == CHOOSE i \in DOMAIN m :
                          \A j \in DOMAIN m :
                              \/ m[i].timestamp < m[j].timestamp
                              \/ (m[i].timestamp = m[j].timestamp /\ i <= j)
             rest == [j \in 1..(Len(m) - 1) |-> IF j < first THEN m[j] ELSE m[j + 1]]
         IN  <<m[first]>> \o SortByTimestamp(rest)

\* Math.ceil(n * 0.2)
CeilFifth(n) == (n + 4) \div 5

\* Nothing is removed.
evictOldest_keepAll(m) == m

\* CacheService.evictOldest, part_019 lines 247-265; an entry whose key is
\* the empty string is skipped (line 259).
evictOldest(m) ==
    LET entries == SortByTimestamp(m)
        toRemove == CeilFifth(Len(entries))
        removed == {entries[i].key : i \in {j \in 1..toRemove : entries[j].key # ""}}
    IN  SelectSeq(m, LAMBDA e : e.key \notin removed)

\* CacheService.set, part_019 lines 124-140.
ServiceSet(k, v, ttl) ==
    /\ underTest = "CacheService"
    /\ LET actualTtl == IF ttl # 0 THEN ttl ELSE DefaultTtl
           afterEvict == IF Len(serviceCache) >= maxSize
                         THEN evictOldest(serviceCache)
                         ELSE serviceCache
       IN  /\ serviceCache' = MapSet(afterEvict,
                  [key |-> k, data |-> v, timestamp |-> now, ttl |-> actualTtl])
           /\ lastEvict' = IF Len(serviceCache) >= maxSize
                           THEN Evicted(k, serviceCache, afterEvict) ELSE NoEvict
    /\ UNCHANGED <<limiterVars, extractVars, generatorVars, httpVars, exampleVars, underTest, enabled, maxSize, cache, lastRead>>

\* CacheService.getOrFetch(key, fetcher, ttl), part_019 lines 145-159, with
\* a fetcher that resolves with data before any other cache call runs;
\* "null" stands for the value null.  lastRead tells whether the entry was
\* stored and within its TTL when the call started (hit), whether the
\* fetcher was invoked, and what the call returned.
ServiceGetOrFetch(k, data, ttl) ==
    /\ underTest = "CacheService"
    /\ LET stored == MapHas(serviceCache, k) /\ ~EntryExpired(MapGet(serviceCache, k))
           \* get, lines 105-119
           afterGet == IF MapHas(serviceCache, k) /\ ~stored
                       THEN MapDelete(serviceCache, k) ELSE serviceCache
           cached == IF stored THEN MapGet(serviceCache, k).data ELSE "null"
           \* set, lines 124-140
           actualTtl == IF ttl # 0 THEN ttl ELSE DefaultTtl
           afterEvict == IF Len(afterGet) >= maxSize THEN evictOldest(afterGet) ELSE afterGet
           read == IF stored
                   THEN Hit("getOrFetch", k, cached, MapGet(serviceCache, k).timestamp,
                            MapGet(serviceCache, k).ttl)
                   ELSE Miss("getOrFetch", k, MapHas(serviceCache, k))
       IN  IF cached # "null"
           THEN /\ lastRead' = [n \in DOMAIN read \cup {"fetched", "returned"} |->
                                    CASE n = "fetched" -> FALSE
                                      [] n = "returned" -> cached
                                      [] OTHER -> read[n]]
                /\ UNCHANGED <<serviceCache, lastEvict>>
           ELSE /\ lastRead' = [n \in DOMAIN read \cup {"fetched", "returned"} |->
                                    CASE n = "fetched" -> TRUE
                                      [] n = "returned" -> data
                                      [] OTHER -> read[n]]
                /\ serviceCache' = MapSet(afterEvict,
                       [key |-> k, data |-> data, timestamp |-> now, ttl |-> actualTtl])
                /\ lastEvict' = IF Len(afterGet) >= maxSize
                                THEN Evicted(k, afterGet, afterEvict) ELSE NoEvict
    /\ UNCHANGED <<limiterVars, extractVars, generatorVars, httpVars, exampleVars, underTest,
                   enabled, maxSize, cache>>

\* CacheService.delete, part_019 lines 183-185.
ServiceDelete(k) ==
    /\ underTest = "CacheService"
    /\ serviceCache' = MapDelete(serviceCache, k)
    /\ UNCHANGED <<limiterVars, extractVars, generatorVars, httpVars, exampleVars, underTest, enabled, maxSize, cache, lastRead,
                   lastEvict>>

\* CacheService.clear, part_019 lines 190-192.
ServiceClear ==
    /\ underTest = "CacheService"
    /\ serviceCache' = <<>>
    /\ UNCHANGED <<limiterVars, extractVars, generatorVars, httpVars, exampleVars, underTest, enabled, maxSize, cache, lastRead,
                   lastEvict>>

\* CacheService.cleanup, part_019 lines 227-242: the periodic sweep.
cleanup ==
    /\ underTest = "CacheService"
    /\ serviceCache' = SelectSeq(serviceCache, LAMBDA e : ~EntryExpired(e))
    /\ UNCHANGED <<limiterVars, extractVars, generatorVars, httpVars, exampleVars, underTest, enabled, maxSize, cache, lastRead,
                   lastEvict>>

\* The clock advances.
TickCache ==
    /\ now < ConstructedAt + MaxCacheTime
    /\ now' = now + 1
    /\ UNCHANGED <<lastRequest, requestCount, resetTime, minuteRequestCount,
                   minuteResetTime, thr, nextSeq, grantLog, cacheVars, generatorVars, httpVars, exampleVars, extractVars>>

\* The insertions and reads of a cache of EvictMaxSize entries, with the
\* default TTL.
NextEvict ==
    \/ \E k \in EvictKeys : CacheSet(k, "v1")
    \/ \E k \in EvictKeys : CacheGet(k)
    \/ \E k \in EvictKeys : ServiceSet(k, "v1", 0)
    \/ \E k \in EvictKeys : ServiceGet(k)
    \/ TickCache

NextCache ==
    \/ \E k \in Keys : CacheGet(k)
    \/ \E k \in Keys : CacheHas(k)
    \/ \E k \in Keys, v \in Values : CacheSet(k, v)
    \/ CacheClear
    \/ \E k \in Keys : ServiceGet(k)
    \/ \E k \in Keys : ServiceHas(k)
    \/ \E k \in Keys, v \in Values, ttl \in TtlArgs : ServiceSet(k, v, ttl)
    \/ \E k \in Keys, data \in {"v1", "null"} :
          ServiceGetOrFetch(k, data, 0)
    \/ \E k \in Keys : ServiceDelete(k)
    \/ ServiceClear
    \/ cleanup
    \/ TickCache

(***************************************************************************)
(* Schema extraction.  Two implementations live in the repository:         *)
(*   "github"  - src/src/github.ts fetchResourceSchemaFromGithub, wrapped  *)
(*               by fetchEnhancedResourceSchema of src/unnamed/part_009;   *)
(*   "service" - GitHubService.fetchResourceSchema (src/unnamed/part_001)  *)
(*               over GitHubApiClient (src/src/api/github.ts), wrapped by  *)
(*               SchemaService.fetchEnhancedResourceSchema                 *)
(*               (src/src/services/schemaService.ts).                      *)
(***************************************************************************)
\* Number of extraction calls in a run, and number of 2xx file responses
\* that reach githubContentCache in a run.
MaxExtractCalls == 2
MaxServed == 1

\* config.github.maxRetries, src/src/config.ts line 13.
maxRetries == 3

Impls == {"github", "service"}
Providers == {"aws", "acme"}
\* A resource name is the sequence of its words and separators.
Resources == {<<"instance">>, <<"s3", "-", "bucket">>}

\* A map with no keys ({} in the source).
EmptyMap == [n \in {} |-> n]

\* PROVIDER_REPOS of github.ts lines 61-182 (owner, name, defaultBranch).
PROVIDER_REPOS ==
    [p \in {"aws", "azurerm", "azure", "azuread", "google", "gcp", "kubernetes",
            "oci", "docker", "github", "datadog", "digitalocean", "tfe", "helm",
            "vault", "alicloud", "consul", "random", "time", "template", "null",
            "local", "cloudinit", "external"} |->
        [owner |-> CASE p \in {"oci"} -> "oracle"
                     [] p \in {"docker"} -> "kreuzwerker"
                     [] p \in {"github"} -> "integrations"
                     [] p \in {"datadog"} -> "DataDog"
                     [] p \in {"digitalocean"} -> "digitalocean"
                     [] p \in {"alicloud"} -> "aliyun"
                     [] OTHER -> "hashicorp",
         name |-> CASE p \in {"azurerm", "azure"} -> "terraform-provider-azurerm"
                    [] p \in {"google", "gcp"} -> "terraform-provider-google"
                    [] OTHER -> "terraform-provider-" \o p,
         defaultBranch |-> IF p \in {"oci", "alicloud"} THEN "master" ELSE "main"]]

\* PROVIDER_REPOS of part_015 lines 11-43.
ServiceProviderRepos ==
    [p \in {"aws", "azurerm", "azure", "azuread", "google", "gcp"} |-> PROVIDER_REPOS[p]]

\* null, as a repository and as a schema.
NullRepo == [null |-> TRUE]
NullSchema == [null |-> TRUE]
IsNull(x) == "null" \in DOMAIN x

\* A lookup that finds no provider in the table.
getProviderRepo_none(impl, provider) == NullRepo

\* getProviderRepo: PROVIDER_REPOS[provider] || null.
getProviderRepo(impl, provider) ==
    LET table == IF impl = "github" THEN PROVIDER_REPOS ELSE ServiceProviderRepos
    IN  IF provider \in DOMAIN table THEN table[provider] ELSE NullRepo

\* The repository at the top of a search result.
TopRepo(provider) ==
    [owner |-> "community", name |-> "terraform-provider-" \o provider,
     defaultBranch |-> "main"]

\* resource.replace(/-/g, '_')
ReplaceHyphens(resource) ==
    [i \in DOMAIN resource |-> IF resource[i] = "-" THEN "_" ELSE resource[i]]

\* possiblePaths, github.ts lines 441-469 and part_001 lines 43-71: each path
\* is the sequence of the pieces its template is filled with.
possiblePaths(provider, resource) ==
    LET r == ReplaceHyphens(resource)
        pr == <<provider, "_">> \o r
    IN
    << <<"internal/service/">> \o r \o <<"/resource_">> \o r \o <<".go">>,
       <<"internal/service/">> \o r \o <<"/resource_">> \o pr \o <<".go">>,
       <<"internal/services/">> \o r \o <<"/resource_">> \o r \o <<".go">>,
       <<"internal/services/">> \o r \o <<"/resource_">> \o pr \o <<".go">>,
       <<"internal/provider/resource_">> \o r \o <<".go">>,
       <<"internal/provider/resource_">> \o pr \o <<".go">>,
       r \o <<"/resource_">> \o pr \o <<".go">>,
       r \o <<"/resource.go">>,
       <<"internal/service/">> \o r \o <<"/">> \o r \o <<".go">>,
       <<"google/resource_">> \o r \o <<".go">>,
       <<"azurerm/internal/services/">> \o r \o <<"/resource_arm_">> \o r \o <<".go">>,
       <<"internal/service/">> \o r \o <<"/schema.go">>,
       <<"internal/services/">> \o r \o <<"/schema.go">>,
       <<"internal/schema/">> \o r \o <<".go">> >>

\* github.ts line 497, part_001 line 97.
RegistryPath == <<"internal/provider/provider.go">>

\* A fetched file, by what the parser's patterns find in it: whether a
\* schema-definition section matches, the attribute entries of that section
\* with their properties as written, the names of the entries that are
\* schema.Resource blocks, and whether the ResourcesMap registers the
\* resource.  length = 0 is the empty body.
GoAttr(required, optional, computed, type) ==
    [Required |-> required, Optional |-> optional, Computed |-> computed, Type |-> type]

EmptyBody ==
    [length |-> 0, section |-> FALSE, registers |-> FALSE,
     entries |-> EmptyMap, blocks |-> EmptyMap]
NoSchemaBody ==
    [length |-> 1, section |-> FALSE, registers |-> FALSE,
     entries |-> EmptyMap, blocks |-> EmptyMap]
EmptySectionBody ==
    [length |-> 1, section |-> TRUE, registers |-> FALSE,
     entries |-> EmptyMap, blocks |-> EmptyMap]
ComputedOnlyBody ==
    [length |-> 1, section |-> TRUE, registers |-> FALSE,
     entries |-> [n \in {"arn"} |-> GoAttr("none", "none", "true", "TypeString")],
     blocks |-> EmptyMap]
RequiredBody ==
    [length |-> 1, section |-> TRUE, registers |-> FALSE,
     entries |-> [n \in {"ami", "arn"} |->
                    IF n = "ami" THEN GoAttr("true", "none", "none", "TypeString")
                    ELSE GoAttr("none", "none", "true", "TypeString")],
     blocks |-> EmptyMap]
BlockBody ==
    [length |-> 1, section |-> TRUE, registers |-> FALSE,
     entries |-> [n \in {"rule"} |-> GoAttr("none", "true", "none", "TypeList")],
     blocks |-> [n \in {"rule"} |-> "TypeList"]]
RegistryBody ==
    [length |-> 1, section |-> FALSE, registers |-> TRUE,
     entries |-> EmptyMap, blocks |-> EmptyMap]

Bodies == {EmptyBody, NoSchemaBody, EmptySectionBody, ComputedOnlyBody,
           RequiredBody, BlockBody, RegistryBody}

\* typeMatch[1].toLowerCase() of "schema.TypeX"
LowerType(type) ==
    CASE type = "TypeString" -> "typestring"
      [] type = "TypeList" -> "typelist"
      [] OTHER -> type

\* parseAttributeProperties, github.ts lines 621-733: every flag starts
\* false and is set from the "Flag: true|false" text when it is present.
parseAttributeProperties(definition) ==
    [required |-> definition.Required = "true",
     optional |-> definition.Optional = "true",
     computed |-> definition.Computed = "true",
     type |-> LowerType(definition.Type)]

\* parseGoSchema of github.ts, lines 533-559, with extractSchemaSection,
\* parseAttributes and parseBlockTypes (lines 564-779).
parseGoSchemaGithub(content) ==
    IF ~content.section
    THEN [attributes |-> EmptyMap, blockTypes |-> EmptyMap]
    ELSE [attributes |-> [n \in DOMAIN content.entries |->
                             parseAttributeProperties(content.entries[n])],
          blockTypes |-> [n \in DOMAIN content.blocks |->
                             [nesting |-> LowerType(content.blocks[n])]]]

\* parseGoSchema of part_001, lines 135-165: its extractSchemaSection
\* (lines 174-177) returns null for every input.
parseGoSchemaService(content) ==
    [attributes |-> EmptyMap, blockTypes |-> EmptyMap]

parseGoSchema(impl, content) ==
    IF impl = "github" THEN parseGoSchemaGithub(content)
    ELSE parseGoSchemaService(content)

\* parseRegistryResources: github.ts lines 784-835 returns a placeholder
\* schema when the ResourcesMap registers the resource and null otherwise;
\* part_001 lines 196-199 returns null for every input.
parseRegistryResources(impl, providerCode) ==
    IF impl = "github" /\ providerCode.registers
    THEN [attributes |->
             [n \in {"id", "name", "tags"} |->
                 CASE n = "id" -> [required |-> FALSE, optional |-> FALSE,
                                   computed |-> TRUE, type |-> "string"]
                   [] n = "name" -> [required |-> TRUE, optional |-> FALSE,
                                     computed |-> FALSE, type |-> "string"]
                   [] n = "tags" -> [required |-> FALSE, optional |-> TRUE,
                                     computed |-> FALSE, type |-> "map"]],
          blockTypes |-> EmptyMap]
    ELSE NullSchema

\* Object.keys(schema.attributes).length > 0 guarded by "schema &&".
HasAttributes(schema) ==
    ~IsNull(schema) /\ DOMAIN schema.attributes # {}

\* isValidSchema, part_009 lines 161-174 and schemaService.ts lines 104-117.
isValidSchema(schema) ==
    IF DOMAIN schema.attributes = {} THEN FALSE
    ELSE \/ \E n \in DOMAIN schema.attributes : schema.attributes[n].required
         \/ DOMAIN schema.blockTypes # {}

\* convertAttribute, part_009 lines 50-75.
convertAttribute(githubAttr) ==
    [required |-> githubAttr.required, type |-> githubAttr.type]

\* convertGitHubSchemaToGeneratorSchema, part_009 lines 12-45 and
\* schemaService.ts lines 22-63: the attributes converted, then one
\* attribute per block type (required only when min_items > 0, which no
\* body here sets).
convertGitHubSchemaToGeneratorSchema(githubSchema) ==
    [n \in DOMAIN githubSchema.attributes \cup DOMAIN githubSchema.blockTypes |->
        IF n \in DOMAIN githubSchema.blockTypes
        THEN [required |-> FALSE, type |-> githubSchema.blockTypes[n].nesting]
        ELSE convertAttribute(githubSchema.attributes[n])]

\* { ...a, ...b }
Spread(a, b) ==
    [n \in DOMAIN a \cup DOMAIN b |-> IF n \in DOMAIN b THEN b[n] ELSE a[n]]

BasicAttr(required, type) == [required |-> required, type |-> type]

\* A basic schema without attributes, as the stub of schemaService.ts
\* lines 188-193 returns for every input.
createBasicSchema_empty(impl, provider, resource) == EmptyMap

\* createBasicSchema: part_009 lines 217-366; schemaService.ts lines 188-193
\* returns an attribute-free schema.  The comparison is with the resource
\* name as the caller wrote it.
createBasicSchema(impl, provider, resource) ==
    LET base == [n \in {"name", "tags"} |->
                    IF n = "name" THEN BasicAttr(TRUE, "string")
                    ELSE BasicAttr(FALSE, "map")]
        awsInstance ==
            [n \in {"ami", "instance_type", "subnet_id", "vpc_security_group_ids"} |->
                CASE n \in {"ami", "instance_type"} -> BasicAttr(TRUE, "string")
                  [] n = "subnet_id" -> BasicAttr(FALSE, "string")
                  [] OTHER -> BasicAttr(FALSE, "list")]
        awsBucket ==
            [n \in {"bucket", "acl", "versioning"} |->
                CASE n = "bucket" -> BasicAttr(TRUE, "string")
                  [] n = "acl" -> BasicAttr(FALSE, "string")
                  [] OTHER -> BasicAttr(FALSE, "list")]
        googleInstance ==
            [n \in {"machine_type", "zone", "boot_disk", "network_interface"} |->
                IF n \in {"machine_type", "zone"} THEN BasicAttr(TRUE, "string")
                ELSE BasicAttr(TRUE, "list")]
        azure ==
            [n \in {"location", "resource_group_name"} |-> BasicAttr(TRUE, "string")]
    IN  IF impl = "service" THEN EmptyMap
        ELSE IF provider = "aws" /\ resource = <<"instance">> THEN Spread(base, awsInstance)
        ELSE IF provider = "aws" /\ resource = <<"s3", "_", "bucket">> THEN Spread(base, awsBucket)
        ELSE IF provider \in {"google", "gcp"} /\ resource = <<"compute", "_", "instance">>
             THEN Spread(base, googleInstance)
        ELSE IF provider \in {"azure", "azurerm"} THEN Spread(base, azure)
        ELSE base

(***************************************************************************)
(* Schema extraction: the calls and their steps.  An extraction call is    *)
(* cut at its awaits: waiting for a rate-limit permit, waiting for the     *)
(* response to a request, waiting for a retry backoff timer.               *)
(***************************************************************************)
\* Status codes for which api/github.ts retries (lines 113 and 184).
RetryStatuses == {429, 500, 502, 503, 504}

\* What the remote side can answer to one request.
NetworkError == [kind |-> "network", status |-> 0, content |-> EmptyBody, found |-> FALSE]
HttpStatus(code) == [kind |-> "status", status |-> code, content |-> EmptyBody, found |-> FALSE]
FileOk(body) == [kind |-> "ok", status |-> 200, content |-> body, found |-> FALSE]
SearchOk(hasItems) == [kind |-> "ok", status |-> 200, content |-> EmptyBody, found |-> hasItems]

FileResponses == {NetworkError, HttpStatus(404), HttpStatus(503)} \cup {FileOk(b) : b \in Bodies}
\* A search answers like a file request, or with 200 and a body that
\* JSON.parse rejects.
SearchResponses ==
    {NetworkError, HttpStatus(404), HttpStatus(503), SearchOk(FALSE), SearchOk(TRUE),
     [kind |-> "unparsable", status |-> 200, content |-> EmptyBody, found |-> FALSE]}

\* Cache keys of api/github.ts (lines 29 and 138).
RawKey(repo, path) == <<"raw", repo.owner, repo.name, repo.defaultBranch>> \o path
SearchKey(provider) == <<"api", "GET", "/search/repositories?q=terraform-provider-", provider>>

\* The result of the latest finished attempt on a candidate.
NoAttempt == [idx |-> 0, kind |-> "none", content |-> EmptyBody]
Attempt(i, kind, body) == [idx |-> i, kind |-> kind, content |-> body]

\* What fetchResourceSchema[FromGithub] handed to its caller.
NoInner == [kind |-> "none", schema |-> NullSchema, sourcePath |-> <<>>, error |-> "none"]
InnerReturned(schema, path) ==
    [kind |-> "returned", schema |-> schema, sourcePath |-> path, error |-> "none"]
InnerThrown(error) ==
    [kind |-> "thrown", schema |-> NullSchema, sourcePath |-> <<>>, error |-> error]

\* What fetchEnhancedResourceSchema handed to its caller.
NoOutcome == [kind |-> "none", attributes |-> EmptyMap, error |-> "none"]
Returned(attributes) == [kind |-> "returned", attributes |-> attributes, error |-> "none"]
Thrown(error) == [kind |-> "thrown", attributes |-> EmptyMap, error |-> error]

\* The minimal schema of github.ts lines 513-517 and 522-526, part_001
\* lines 109-113.
MinimalSchema == [attributes |-> EmptyMap, blockTypes |-> EmptyMap]

IdleCall ==
    [pc |-> "idle", stage |-> "none", idx |-> 0, retries |-> 0, repo |-> NullRepo,
     repeated |-> FALSE, fetchCount |-> 0, fetched |-> <<>>, attempted |-> 0,
     last |-> NoAttempt, inner |-> NoInner, outcome |-> NoOutcome,
     resolved |-> "none", permits |-> 0, sent |-> 0]

\* The response to a tool request: the value the request handler of
\* part_000 (lines 179-236) returns, a result or the error response that
\* ErrorHandler.createErrorResponse makes of a thrown error.
NoResponse == [kind |-> "none", code |-> "none", attributes |-> EmptyMap]

InitExtract ==
    /\ tool = [name |-> "none", response |-> NoResponse]
    /\ req = [impl |-> "github", provider |-> "aws", resource |-> <<"instance">>,
              useGithub |-> TRUE]
    /\ callNo = 0
    /\ ex = IdleCall
    /\ githubContentCache = EmptyMap
    /\ githubApiCache = EmptyMap
    /\ served = 0

\* fetchEnhancedResourceSchema from the point where the inner call has
\* settled: part_009 lines 191-211, schemaService.ts lines 134-162.
Enhance(e, q, inner) ==
    LET basic == createBasicSchema(q.impl, q.provider, q.resource)
        converted == convertGitHubSchemaToGeneratorSchema(inner.schema)
        outcome ==
            IF inner.kind = "thrown"
            THEN IF q.impl = "github" THEN Returned(basic)
                 ELSE Thrown("SchemaParsingError")
            ELSE IF isValidSchema(inner.schema) THEN Returned(converted)
            ELSE Returned(Spread(converted, basic))
    IN  [e EXCEPT !.pc = "done", !.inner = inner, !.outcome = outcome]

\* The outer catch of the inner function: github.ts lines 518-527 return the
\* minimal schema, part_001 lines 114-128 throw.
InnerCatch(e, q, error) ==
    IF q.impl = "github"
    THEN Enhance(e, q, InnerReturned(MinimalSchema, <<>>))
    ELSE Enhance(e, q, InnerThrown(IF error = "ResourceNotFoundError"
                                   THEN error ELSE "SchemaParsingError"))

\* The first request of a getRawContent, githubRawGet or search call leaves
\* for the network.  permits and sent are history of that call: the permits
\* it was granted (it waited for one exactly when it comes from "acquire")
\* and the requests it has sent.
Send(e) ==
    [e EXCEPT !.pc = "request",
              !.fetchCount = @ + 1,
              !.permits = IF e.pc = "acquire" THEN 1 ELSE 0,
              !.sent = 1,
              !.fetched = IF e.stage = "discover" THEN @ ELSE Append(@, e.idx)]

RECURSIVE TryCandidate(_, _, _, _)
RECURSIVE AfterContent(_, _, _, _)

\* One call of githubRawGet (github.ts) or getRawContent (api/github.ts
\* lines 136-145) up to its first await.
GetRaw(e, q, cc, path) ==
    IF q.impl = "github" THEN Send(e)
    ELSE LET key == RawKey(e.repo, path) IN
         IF key \in DOMAIN cc /\ cc[key].length > 0
         THEN AfterContent(e, q, cc, cc[key])
         ELSE [e EXCEPT !.pc = "acquire"]

\* The registry fallback, github.ts lines 495-510 and part_001 lines 95-107.
TryRegistry(e, q, cc) ==
    GetRaw([e EXCEPT !.stage = "registry", !.idx = Len(possiblePaths(q.provider, q.resource)) + 1,
                     !.retries = 0],
           q, cc, RegistryPath)

\* The loop of github.ts lines 471-493 and part_001 lines 73-93 from the
\* top of iteration i.
TryCandidate(e, q, cc, i) ==
    LET paths == possiblePaths(q.provider, q.resource) IN
    IF i > Len(paths) THEN TryRegistry(e, q, cc)
    ELSE GetRaw([e EXCEPT !.stage = "candidate", !.idx = i, !.retries = 0,
                          !.attempted = i],
                q, cc, paths[i])

\* A loop body that records the result and goes on to the next path even
\* when the content yields attributes.
AfterContent_continue(e, q, cc, content) ==
    TryCandidate([e EXCEPT !.last = Attempt(e.idx,
                               IF HasAttributes(parseGoSchema(q.impl, content))
                               THEN "found" ELSE "noSchema", content)],
                 q, cc, e.idx + 1)

\* The fetch resolved with content.
AfterContent(e, q, cc, content) ==
    IF e.stage = "candidate"
    THEN LET schema == parseGoSchema(q.impl, content) IN
         IF HasAttributes(schema)
         THEN Enhance([e EXCEPT !.last = Attempt(e.idx, "found", content)], q,
                      InnerReturned(schema, possiblePaths(q.provider, q.resource)[e.idx]))
         ELSE TryCandidate([e EXCEPT !.last = Attempt(e.idx, "noSchema", content)],
                           q, cc, e.idx + 1)
    ELSE LET schema == parseRegistryResources(q.impl, content) IN
         IF HasAttributes(schema)
         THEN Enhance(e, q, InnerReturned(schema, RegistryPath))
         ELSE Enhance(e, q, InnerReturned(MinimalSchema, <<>>))

\* A rejected fetch that escapes the loop to the outer catch.
AfterFetchError_abort(e, q, cc, kind) ==
    InnerCatch([e EXCEPT !.last = Attempt(e.idx, kind, EmptyBody)], q, "Error")

\* The fetch rejected: the catch of line 488 (part_001 line 90) continues
\* with the next path, the catch of line 507 (part_001 line 105) falls
\* through to the minimal schema.
AfterFetchError(e, q, cc, kind) ==
    IF e.stage = "candidate"
    THEN TryCandidate([e EXCEPT !.last = Attempt(e.idx, kind, EmptyBody)],
                      q, cc, e.idx + 1)
    ELSE Enhance(e, q, InnerReturned(MinimalSchema, <<>>))

\* getRepoOrDiscover settled with repo; github.ts lines 431-434 and
\* part_001 lines 33-36.
AfterResolve(e, q, cc, repo) ==
    IF IsNull(repo)
    THEN InnerCatch([e EXCEPT !.resolved = "notFound"], q,
                    IF q.impl = "github" THEN "Error" ELSE "ResourceNotFoundError")
    ELSE TryCandidate([e EXCEPT !.repo = repo, !.resolved = "repository"], q, cc, 1)

\* discoverProviderRepo after the search settled: github.ts lines 289-302,
\* part_015 lines 72-86.
AfterSearch(e, q, cc, found) ==
    AfterResolve(e, q, cc, IF found THEN TopRepo(q.provider) ELSE NullRepo)

\* The error of the search leaves discoverProviderRepo and getRepoOrDiscover
\* and reaches the catch of their caller.
AfterSearchError_rethrow(e, q, cc, kind) ==
    InnerCatch([e EXCEPT !.last = Attempt(0, kind, EmptyBody), !.resolved = "thrown"],
               q, "GitHubApiError")

\* The catch of discoverProviderRepo, github.ts lines 299-302 and part_015
\* lines 84-87: whatever the search request threw, null is returned.
AfterSearchError(e, q, cc, kind) ==
    AfterSearch([e EXCEPT !.last = Attempt(0, kind, EmptyBody)], q, cc, FALSE)

\* getRepoOrDiscover up to its first await: github.ts lines 320-327,
\* part_015 lines 93-100, api/github.ts lines 28-36.
Resolve(e, q, cc, ac) ==
    LET staticRepo == getProviderRepo(q.impl, q.provider)
        d == [e EXCEPT !.stage = "discover"]
    IN  IF ~IsNull(staticRepo) THEN AfterResolve(e, q, cc, staticRepo)
        ELSE IF q.impl = "github" THEN Send(d)
        ELSE IF SearchKey(q.provider) \in DOMAIN ac
             THEN AfterSearch(d, q, cc, ac[SearchKey(q.provider)])
             ELSE [d EXCEPT !.pc = "acquire"]

\* map.set(key, value)
Put(map, key, value) ==
    [k \in DOMAIN map \cup {key} |-> IF k = key THEN value ELSE map[k]]

\* fetchEnhancedResourceSchema(provider, resource, useGithub) up to its first
\* await: part_009 lines 179-191, schemaService.ts lines 122-134.
Call(impl, provider, resource, useGithub) ==
    /\ ex.pc \in {"idle", "done"}
    /\ callNo < MaxExtractCalls
    /\ callNo > 0 => impl = req.impl
    /\ LET q == [impl |-> impl, provider |-> provider, resource |-> resource,
                 useGithub |-> useGithub]
           e == [IdleCall EXCEPT !.repeated = callNo > 0 /\ q = req]
       IN  /\ req' = q
           /\ ex' = IF ~useGithub
                    THEN [e EXCEPT !.pc = "done",
                                   !.outcome = Returned(createBasicSchema(impl, provider, resource))]
                    ELSE Resolve(e, q, githubContentCache, githubApiCache)
    /\ callNo' = callNo + 1
    /\ UNCHANGED <<limiterVars, cacheVars, generatorVars, httpVars, exampleVars, githubContentCache, githubApiCache, served>>

\* await githubRateLimiter.acquire() returns (api/github.ts lines 36 and
\* 145); the request of the first loop iteration leaves.
PermitGranted ==
    /\ ex.pc = "acquire"
    /\ ex' = Send(ex)
    /\ UNCHANGED <<limiterVars, cacheVars, generatorVars, httpVars, exampleVars, tool, req, callNo, githubContentCache,
                   githubApiCache, served>>

\* The catch of the retry loop, api/github.ts lines 107-124 and 178-195.
ShouldRetry(e, response) ==
    /\ response.kind = "status"
    /\ response.status \in RetryStatuses
    /\ e.retries < maxRetries

\* The response to the search request arrives: githubApiGet (github.ts lines
\* 199-231) or apiRequest (api/github.ts lines 58-124).
SearchResponse(response) ==
    /\ ex.pc = "request"
    /\ ex.stage = "discover"
    /\ IF response.kind = "ok"
       THEN /\ githubApiCache' = IF req.impl = "service"
                                 THEN Put(githubApiCache, SearchKey(req.provider), response.found)
                                 ELSE githubApiCache
            /\ ex' = AfterSearch(ex, req, githubContentCache, response.found)
       ELSE /\ UNCHANGED githubApiCache
            /\ ex' = IF req.impl = "service" /\ ShouldRetry(ex, response)
                     THEN [ex EXCEPT !.pc = "backoff"]
                     ELSE AfterSearchError(ex, req, githubContentCache,
                                           CASE response.kind = "network" -> "networkError"
                                             [] response.kind = "status" -> "httpError"
                                             [] OTHER -> "unparsable")
    /\ UNCHANGED <<limiterVars, cacheVars, generatorVars, httpVars, exampleVars, tool, req, callNo, githubContentCache, served>>

\* The response to a file request arrives: githubRawGet (github.ts lines
\* 249-269) or getRawContent (api/github.ts lines 149-195).
FileResponse(response) ==
    /\ ex.pc = "request"
    /\ ex.stage \in {"candidate", "registry"}
    /\ LET path == IF ex.stage = "candidate"
                   THEN possiblePaths(req.provider, req.resource)[ex.idx]
                   ELSE RegistryPath
       IN
       IF response.kind = "ok"
       THEN /\ req.impl = "service" => served < MaxServed
            /\ served' = IF req.impl = "service" THEN served + 1 ELSE served
            /\ LET cc == IF req.impl = "service"
                         THEN Put(githubContentCache, RawKey(ex.repo, path), response.content)
                         ELSE githubContentCache
               IN  /\ githubContentCache' = cc
                   /\ ex' = AfterContent(ex, req, cc, response.content)
       ELSE /\ UNCHANGED <<githubContentCache, served>>
            /\ ex' = IF req.impl = "service" /\ ShouldRetry(ex, response)
                     THEN [ex EXCEPT !.pc = "backoff"]
                     ELSE AfterFetchError(ex, req, githubContentCache,
                                          IF response.kind = "network" THEN "networkError"
                                          ELSE "httpError")
    /\ UNCHANGED <<limiterVars, cacheVars, generatorVars, httpVars, exampleVars, tool, req, callNo, githubApiCache>>

\* The backoff timer fires: retries++ and the next loop iteration sends the
\* request again (api/github.ts lines 116-121 and 187-192).
BackoffElapsed ==
    /\ ex.pc = "backoff"
    /\ ex' = [ex EXCEPT !.pc = "request", !.retries = @ + 1, !.sent = @ + 1]
    /\ UNCHANGED <<limiterVars, cacheVars, generatorVars, httpVars, exampleVars, tool, req, callNo, githubContentCache,
                   githubApiCache, served>>

\* supportedProviders and aliasMap of the configuration, TASKS.md lines
\* 381-391, and Config.isProviderSupported, lines 491-494.
isProviderSupported(provider) ==
    LET supportedProviders ==
            {"aws", "azurerm", "azure", "google", "gcp", "kubernetes", "docker",
             "github", "datadog", "digitalocean", "helm", "vault", "consul",
             "random", "time", "null", "local"}
        normalized == CASE provider = "gcp" -> "google"
                        [] provider = "azure" -> "azurerm"
                        [] OTHER -> provider
    IN  normalized \in supportedProviders

\* fetchResourceSchemaWithErrorHandling (part_000 lines 726-834) and
\* generateTerraformConfigurationWithErrorHandling (lines 581-721) up to
\* their first await: a provider that is not supported throws
\* ProviderNotSupportedError, which the request handler answers as an error
\* response; otherwise the extraction of part_009 starts (always from the
\* repository for terraform_generate_config).  Providers holds no alias, so
\* the normalized provider is the provider.
ToolRequest(name, provider, resource, useGithub) ==
    /\ tool.response.kind # "pending"
    /\ IF ~isProviderSupported(provider)
       THEN /\ tool' = [name |-> name,
                        response |-> [kind |-> "error", code |-> "PROVIDER_NOT_SUPPORTED",
                                      attributes |-> EmptyMap]]
            /\ UNCHANGED <<limiterVars, cacheVars, generatorVars, httpVars, exampleVars, req, callNo, ex,
                           githubContentCache, githubApiCache, served>>
       ELSE /\ Call("github", provider, resource,
                    useGithub \/ name = "terraform_generate_config")
            /\ tool' = [name |-> name,
                        response |-> [NoResponse EXCEPT !.kind = "pending"]]

\* The handler resumes when the extraction has returned and answers with
\* the schema (part_000 lines 752-773) or with the configuration generated
\* from the schema of fetchResourceSchemaFromGithub (part_009 lines 133-149,
\* part_000 lines 601-614); neither fetchEnhancedResourceSchema nor
\* fetchSchemaAndGenerateConfig throws, so no catch of the handlers is
\* entered.
ToolRespond ==
    /\ tool.response.kind = "pending"
    /\ ex.pc = "done"
    /\ ex.outcome.kind = "returned"
    /\ tool' = [tool EXCEPT !.response =
                   [kind |-> "result", code |-> "none",
                    attributes |->
                        IF tool.name = "terraform_resource_schema"
                        THEN ex.outcome.attributes
                        ELSE convertGitHubSchemaToGeneratorSchema(ex.inner.schema)]]
    /\ UNCHANGED <<limiterVars, cacheVars, generatorVars, httpVars, exampleVars, req, callNo, ex,
                   githubContentCache, githubApiCache, served>>

\* The tool requests for a schema or a configuration and the steps of the
\* extractions they start.  Every supported provider is in PROVIDER_REPOS, so
\* these extractions search no repository.
NextTool ==
    \/ \E name \in {"terraform_resource_schema", "terraform_generate_config"},
          provider \in Providers, resource \in Resources, useGithub \in BOOLEAN :
          ToolRequest(name, provider, resource, useGithub)
    \/ ToolRespond
    \/ \E response \in FileResponses : FileResponse(response)

NextExtract ==
    \/ \E impl \in Impls, provider \in Providers, resource \in Resources,
          useGithub \in BOOLEAN :
          Call(impl, provider, resource, useGithub) /\ UNCHANGED tool
    \/ PermitGranted
    \/ \E response \in SearchResponses : SearchResponse(response)
    \/ \E response \in FileResponses : FileResponse(response)
    \/ BackoffElapsed

\* The steps of the github.ts implementation, which takes no permit and
\* never retries.
NextGithub ==
    \/ \E provider \in Providers, resource \in Resources, useGithub \in BOOLEAN :
          Call("github", provider, resource, useGithub) /\ UNCHANGED tool
    \/ \E response \in SearchResponses : SearchResponse(response)
    \/ \E response \in FileResponses : FileResponse(response)

\* Go files whose schema section defines ami and arn with every way of
\* writing the flags: true, false or not written.
DefinitionBodies ==
    LET Flag == {"true", "false", "none"}
        Definitions == {GoAttr(r, o, c, "TypeString") : r \in Flag, o \in Flag, c \in Flag}
    IN  {[length |-> 1, section |-> TRUE, registers |-> FALSE,
          entries |-> e, blocks |-> EmptyMap] : e \in [{"ami", "arn"} -> Definitions]}

\* The github.ts extraction of aws_instance when the first candidate file is
\* served with one of the DefinitionBodies.
NextParse ==
    \/ Call("github", "aws", <<"instance">>, TRUE) /\ UNCHANGED tool
    \/ \E body \in DefinitionBodies : FileResponse(FileOk(body))

(***************************************************************************)
(* The configuration generator.  generateTerraformConfig exists in two     *)
(* copies, the enhanced generator of part_012 and the basic generator of   *)
(* part_013; "integration" is fetchSchemaAndGenerateConfig of part_009,    *)
(* which merges its own defaults into the attributes and calls the         *)
(* enhanced generator.  A text is a sequence of lines; a line is a record  *)
(* of the fragment it belongs to, the name it starts with, whether it is   *)
(* an assignment (name = value) or a block header (name {), and the value  *)
(* as it is printed.                                                       *)
(***************************************************************************)
MaxGenerateCalls == 2

\* The attribute names of the schemas drawn, in the order of Object.entries.
SchemaNames == <<"instance_type", "password", "tags", "ebs_block_device">>

\* SchemaAttribute, part_012 lines 6-14: tags is a map without elem,
\* ebs_block_device a list with elem, the others are strings.
SchemaAttribute(name, required) ==
    [name |-> name, required |-> required,
     type |-> CASE name = "tags" -> "map"
                [] name = "ebs_block_device" -> "list"
                [] OTHER -> "string",
     elem |-> name = "ebs_block_device"]

\* Every schema over SchemaNames: each name absent, required or optional.
Schemas ==
    {LET all == [i \in DOMAIN SchemaNames |-> [i |-> i, status |-> f[i]]]
         kept == SelectSeq(all, LAMBDA a : a.status # "absent")
     IN  [j \in DOMAIN kept |->
             SchemaAttribute(SchemaNames[kept[j].i], kept[j].status = "required")] :
     f \in [DOMAIN SchemaNames -> {"absent", "required", "optional"}]}

\* The values of Record<string, any> drawn: strings, and objects of string
\* properties.
StringValue(s) == [type |-> "string", string |-> s, entries |-> <<>>]
ObjectValue(e) == [type |-> "object", string |-> "", entries |-> e]

\* Every attributes argument over SchemaNames, in the order of
\* Object.entries: a caller passes a string for instance_type and password
\* and an object for tags and ebs_block_device.
UserAttributes ==
    {LET UserValue(name) ==
             CASE name = "instance_type" -> StringValue("t3.micro")
               [] name = "password" -> StringValue("hunter2")
               [] name = "tags" ->
                      ObjectValue(<<[key |-> "Environment", value |-> "prod"]>>)
               [] OTHER -> ObjectValue(<<[key |-> "device_name", value |-> "sdh"]>>)
         kept == SelectSeq(SchemaNames, LAMBDA n : n \in s)
     IN  [j \in DOMAIN kept |-> [name |-> kept[j], value |-> UserValue(kept[j])]] :
     s \in SUBSET {SchemaNames[i] : i \in DOMAIN SchemaNames}}

\* name in providedAttributes
Provided(providedAttributes, name) ==
    \E i \in DOMAIN providedAttributes : providedAttributes[i].name = name

\* providedAttributes[name]
ValueOf(providedAttributes, name) ==
    providedAttributes[CHOOSE i \in DOMAIN providedAttributes :
                           providedAttributes[i].name = name].value

\* name.includes(part) and name.endsWith(part), for the names of
\* SchemaNames and the parts the generators test: "_name", "_zone", "id",
\* "_id", "arn", "cidr", "_tags", "enabled", "enable_" and "type".
Includes(name, part) == name = "instance_type" /\ part = "type"

Line(fragment, name, assign, value) ==
    [fragment |-> fragment, name |-> name, assign |-> assign, value |-> value]

Quote(s) == "\"" \o s \o "\""

\* A formatted value is the sequence of its one text; null is the empty
\* sequence.
\* formatObject, part_012 lines 655-679 and part_013 lines 186-208.
formatObject(obj) ==
    LET RECURSIVE join(_)
        join(i) ==
            IF i > Len(obj) THEN ""
            ELSE (IF i > 1 THEN "\n" ELSE "") \o "    " \o obj[i].key \o " = "
                 \o Quote(obj[i].value) \o join(i + 1)
    IN  IF Len(obj) = 0 THEN "{}" ELSE "{\n" \o join(1) \o "\n  }"

\* generateSmartDefaultValue, part_012 lines 574-629.
generateSmartDefaultValue(name, attr) ==
    IF name \in {"access_key", "secret_key", "password", "token"} THEN <<>>
    ELSE IF attr.required
    THEN IF name = "name" \/ Includes(name, "_name")
              THEN <<Quote("example-" \o name)>>
         ELSE IF name \in {"ami", "image_id"} THEN <<Quote("ami-12345678")>>
         ELSE IF name = "instance_type" THEN <<Quote("t3.micro")>>
         ELSE IF name = "region" THEN <<Quote("us-west-2")>>
         ELSE IF name = "zone" \/ Includes(name, "_zone") THEN <<Quote("us-central1-a")>>
         ELSE IF name = "machine_type" THEN <<Quote("e2-medium")>>
         ELSE IF Includes(name, "arn")
              THEN <<Quote("arn:aws:service:region:account-id:resource/example")>>
         ELSE IF Includes(name, "cidr") THEN <<Quote("10.0.0.0/16")>>
         ELSE IF attr.type = "string" THEN <<Quote("example-value-for-" \o name)>>
         ELSE IF attr.type = "number" THEN <<"42">>
         ELSE IF attr.type = "bool" THEN <<"true">>
         ELSE <<Quote("required-value-for-" \o name)>>
    ELSE IF name = "tags" \/ Includes(name, "_tags")
         THEN <<formatObject(<<[key |-> "Name", value |-> "example"],
                               [key |-> "Environment", value |-> "dev"],
                               [key |-> "ManagedBy", value |-> "terraform"]>>)>>
    ELSE IF Includes(name, "enabled") \/ Includes(name, "enable_") THEN <<"true">>
    ELSE IF name = "description"
         THEN <<Quote("Example resource created with Terraform")>>
    ELSE <<>>

\* The defaults of getAttributeValue of the basic generator, part_013
\* lines 133-158.
basicDefaultValue(name, attr) ==
    IF name = "name" THEN <<Quote("example-resource")>>
    ELSE IF name = "tags"
         THEN <<formatObject(<<[key |-> "Name", value |-> "example"],
                               [key |-> "Environment", value |-> "dev"]>>)>>
    ELSE IF attr.required
         THEN IF Includes(name, "id") THEN <<Quote("example-id")>>
              ELSE IF Includes(name, "arn")
                   THEN <<Quote("arn:aws:example:region:account-id:resource/example")>>
              ELSE IF Includes(name, "type") THEN <<Quote("standard")>>
              ELSE <<Quote("TODO: required-value-for-" \o name)>>
    ELSE <<>>

\* getAttributeValue, part_012 lines 542-569 and part_013 lines 110-159.
getAttributeValue(impl, name, attr, providedAttributes) ==
    IF Provided(providedAttributes, name)
    THEN LET value == ValueOf(providedAttributes, name)
         IN  IF value.type = "string" THEN <<Quote(value.string)>>
             ELSE <<formatObject(value.entries)>>
    ELSE IF impl = "basic" THEN basicDefaultValue(name, attr)
    ELSE generateSmartDefaultValue(name, attr)

\* categorizeAttributes, part_012 lines 267-291.
categorizeAttributes(schemaAttributes, providedAttributes) ==
    LET block(attr) ==
            \/ attr.type \in {"set", "list", "map"} /\ attr.elem
            \/ /\ Provided(providedAttributes, attr.name)
               /\ ValueOf(providedAttributes, attr.name).type = "object"
    IN  [simpleAttributes |-> SelectSeq(schemaAttributes, LAMBDA a : ~block(a)),
         blockAttributes |-> SelectSeq(schemaAttributes, block)]

\* The loops over requiredAttrs and optionalAttrs of formatAttributes
\* (part_012 lines 314-319 and 328-337, part_013 lines 77-82 and 92-97): a
\* line name = value for every attribute whose value is not null.
AttributeLines(impl, attrs, providedAttributes) ==
    LET RECURSIVE lines(_)
        lines(i) ==
            IF i > Len(attrs) THEN <<>>
            ELSE LET value == getAttributeValue(impl, attrs[i].name, attrs[i],
                                                providedAttributes)
                 IN  (IF value # <<>>
                      THEN <<Line("resource", attrs[i].name, TRUE, value[1])>>
                      ELSE <<>>)
                     \o lines(i + 1)
    IN  lines(1)

\* The properties of a provided object as lines "key = value" of the
\* given fragment: the loops of generateProviderBlock (part_012 lines
\* 187-193) and of formatSingleBlock (lines 389-393).
StringLines(fragment, entries) ==
    [i \in DOMAIN entries |-> Line(fragment, entries[i].key, TRUE, Quote(entries[i].value))]

\* formatAttributes writing the optional attributes before the required
\* ones.
formatAttributes_optionalFirst(schemaAttributes, providedAttributes, random) ==
    LET requiredAttrs == SelectSeq(schemaAttributes, LAMBDA a : a.required)
        optionalAttrs ==
            SelectSeq(schemaAttributes, LAMBDA a :
                /\ ~a.required
                /\ Provided(providedAttributes, a.name) \/ a.name \in random)
    IN  AttributeLines("enhanced", optionalAttrs, providedAttributes)
        \o AttributeLines("enhanced", requiredAttrs, providedAttributes)

\* formatAttributes, part_012 lines 296-343; random is the set of names for
\* which Math.random() > 0.7 came true.
formatAttributes(schemaAttributes, providedAttributes, random) ==
    LET requiredAttrs == SelectSeq(schemaAttributes, LAMBDA a : a.required)
        optionalAttrs ==
            SelectSeq(schemaAttributes, LAMBDA a :
                /\ ~a.required
                /\ Provided(providedAttributes, a.name) \/ a.name \in random)
    IN  (IF Len(requiredAttrs) > 0
         THEN <<Line("comment", "# Required attributes", FALSE, "")>>
              \o AttributeLines("enhanced", requiredAttrs, providedAttributes)
         ELSE <<>>)
        \o
        (IF Len(optionalAttrs) > 0
         THEN <<Line("comment", "# Optional attributes", FALSE, "")>>
              \o AttributeLines("enhanced", optionalAttrs, providedAttributes)
         ELSE <<>>)

\* formatAttributes of the basic generator, part_013 lines 68-105.
basicFormatAttributes(schemaAttributes, providedAttributes) ==
    LET requiredAttrs == SelectSeq(schemaAttributes, LAMBDA a : a.required)
        optionalAttrs ==
            SelectSeq(schemaAttributes, LAMBDA a :
                ~a.required /\ Provided(providedAttributes, a.name))
    IN  AttributeLines("basic", requiredAttrs, providedAttributes)
        \o
        (IF Len(optionalAttrs) > 0
         THEN <<Line("comment", "# Optional attributes", FALSE, "")>>
              \o AttributeLines("basic", optionalAttrs, providedAttributes)
         ELSE <<>>)

\* formatBlockAttributes and formatSingleBlock, part_012 lines 348-414: one
\* block per block attribute, holding the properties of the provided
\* object, or nothing when none was provided.
formatBlockAttributes(blockAttributes, providedAttributes) ==
    LET RECURSIVE blocks(_)
        blocks(i) ==
            IF i > Len(blockAttributes) THEN <<>>
            ELSE LET blockName == blockAttributes[i].name
                     providedBlock ==
                         IF /\ Provided(providedAttributes, blockName)
                            /\ ValueOf(providedAttributes, blockName).type = "object"
                         THEN ValueOf(providedAttributes, blockName).entries
                         ELSE <<>>
                 IN  <<Line("resource", blockName, FALSE, "{")>>
                     \o StringLines("nested", providedBlock)
                     \o blocks(i + 1)
    IN  blocks(1)

\* generateProviderBlock, part_012 lines 132-199; defaultTags is the
\* outcome of Math.random() > 0.5.
generateProviderBlock(provider, attributes, defaultTags) ==
    IF provider = "aws"
    THEN <<Line("provider", "region", TRUE, Quote("us-west-2"))>>
         \o (IF defaultTags
             THEN <<Line("provider", "default_tags", FALSE, "{")>>
                  \o StringLines("provider", <<[key |-> "Project", value |-> "example-project"],
                                               [key |-> "Environment", value |-> "dev"],
                                               [key |-> "ManagedBy", value |-> "terraform"]>>)
             ELSE <<>>)
    ELSE LET strings == SelectSeq(attributes, LAMBDA a : a.value.type = "string")
         IN  [i \in DOMAIN strings |->
                 Line("provider", strings[i].name, TRUE, Quote(strings[i].value.string))]

\* generateProviderSpecificDefaults and the merge { ...smartDefaults,
\* ...attributes }, part_009 lines 76-123 and 144.
mergedAttributes(provider, resource, attributes) ==
    LET smartDefaults ==
            IF provider = "aws" /\ resource = "instance"
            THEN <<[name |-> "ami", value |-> StringValue("ami-0c55b159cbfafe1f0")],
                   [name |-> "instance_type", value |-> StringValue("t3.micro")],
                   [name |-> "tags",
                    value |-> ObjectValue(<<[key |-> "Name", value |-> "example-instance"],
                                            [key |-> "Environment", value |-> "dev"]>>)]>>
            ELSE <<>>
    IN  [i \in DOMAIN smartDefaults |->
            IF Provided(attributes, smartDefaults[i].name)
            THEN [name |-> smartDefaults[i].name,
                  value |-> ValueOf(attributes, smartDefaults[i].name)]
            ELSE smartDefaults[i]]
        \o SelectSeq(attributes, LAMBDA a : ~Provided(smartDefaults, a.name))

\* generateTerraformConfig, part_012 lines 28-91 (impl "enhanced", and
\* "integration" with the merged attributes) and part_013 lines 18-56 (impl
\* "basic").  The terraform, lifecycle, depends_on and output fragments are
\* written from provider and resource alone (part_012 lines 96-127 and
\* 419-537); the locals fragment is not written for the resource drawn.
generateTerraformConfig(impl, provider, resource, schema, attributes, random) ==
    LET resourceType == provider \o "_" \o resource
        header == <<Line("resource", resourceType, FALSE, "{")>>
    IN  IF impl = "basic"
        THEN (IF provider = "aws"
              THEN <<Line("provider", "region", TRUE, Quote("us-west-2"))>>
              ELSE <<>>)
             \o header
             \o basicFormatAttributes(schema, attributes)
        ELSE <<Line("terraform", provider, TRUE, Quote("hashicorp/" \o provider))>>
             \o generateProviderBlock(provider, attributes, random.defaultTags)
             \o header
             \o formatAttributes(categorizeAttributes(schema, attributes).simpleAttributes,
                                 attributes, random.optional)
             \o formatBlockAttributes(categorizeAttributes(schema, attributes).blockAttributes,
                                      attributes)
             \o (IF resourceType = "aws_instance"
                 THEN <<Line("lifecycle", "create_before_destroy", TRUE, "true"),
                        Line("depends_on", "depends_on", TRUE,
                             "[aws_security_group.example, aws_subnet.example]")>>
                 ELSE <<>>)
             \o <<Line("output", resource \o "_example_id", TRUE,
                       resourceType \o "." \o resource \o "_example.id")>>

\* No call made: the value of gen outside the generator runs.
IdleGen ==
    [impl |-> "basic", provider |-> "aws", resource |-> "instance",
     schema |-> <<>>, attributes |-> <<>>, texts |-> <<>>]

\* One call of the generator with the arguments of the run; texts holds
\* what the calls returned, in call order.  random holds the outcomes of
\* the Math.random() calls of the call.
Generate ==
    /\ Len(gen.texts) < MaxGenerateCalls
    /\ \E random \in [defaultTags : BOOLEAN,
                       optional : SUBSET {SchemaNames[i] : i \in DOMAIN SchemaNames}] :
           gen' = [gen EXCEPT !.texts = Append(@,
                      generateTerraformConfig(
                          gen.impl, gen.provider, gen.resource, gen.schema,
                          IF gen.impl = "integration"
                          THEN mergedAttributes(gen.provider, gen.resource, gen.attributes)
                          ELSE gen.attributes,
                          random))]
    /\ UNCHANGED <<limiterVars, cacheVars, extractVars, httpVars, exampleVars>>

(***************************************************************************)
(* Retry loops of the HTTP clients: HttpClient.request                     *)
(* (src/src/services/http-client.ts) and GitHubApiClient.apiRequest        *)
(* (src/src/api/github.ts).  A logical request is cut at its awaits: the   *)
(* attempt in flight and the sleep before the next attempt.                *)
(***************************************************************************)
\* Number of logical requests in a run.
MaxHttpRequests == 2

Clients == {"HttpClient", "apiRequest"}

\* What one attempt can end with: a status code, a 403 that carries a
\* rate-limit signal (x-ratelimit-reset less than an hour ahead for
\* http-client.ts lines 103-113, x-ratelimit-remaining 0 for api/github.ts
\* line 73), a rejection with TimeoutError, a rejection with a transport
\* error.
AttemptOutcomes ==
    {HttpStatus(c) : c \in {200, 400, 403, 404, 429, 500, 503}}
    \cup {NetworkError,
          [kind |-> "timeout", status |-> 0, content |-> EmptyBody, found |-> FALSE],
          [kind |-> "rateLimit", status |-> 403, content |-> EmptyBody, found |-> FALSE]}

\* lastError of http-client.ts line 72 before any attempt has failed.
RequestFailed == [kind |-> "Request failed", status |-> 0, content |-> EmptyBody, found |-> FALSE]

\* No request made.  retries is the loop counter (attempt of http-client.ts
\* line 74, retries of api/github.ts line 38); outcomes and sleeps are
\* history: what the attempts of the request ended with, and the number of
\* sleeps of the request.  An error is named by the attempt outcome it was
\* made from.
IdleHttp ==
    [client |-> "HttpClient", pc |-> "idle", retries |-> 0, outcomes |-> <<>>, sleeps |-> 0,
     lastError |-> RequestFailed, raised |-> RequestFailed, requests |-> 0]

\* The loop condition after the counter was advanced: http-client.ts line
\* 74 (and the throw of line 159 behind the loop), api/github.ts line 40.
NextAttempt_oneMore(h) ==
    IF h.retries <= maxRetries + 1 THEN [h EXCEPT !.pc = "attempt"]
    ELSE [h EXCEPT !.pc = "raised", !.raised = h.lastError]

NextAttempt(h) ==
    IF h.retries <= maxRetries THEN [h EXCEPT !.pc = "attempt"]
    ELSE [h EXCEPT !.pc = "raised", !.raised = h.lastError]

\* The catch of http-client.ts lines 140-150: an HttpError below 500 is
\* thrown to the caller.
HttpClientCatch_swallow(h, error) == FALSE

HttpClientCatch(h, error) == error.kind = "status" /\ error.status < 500

\* One iteration of the loop of HttpClient.request from the response on,
\* http-client.ts lines 88-156.
HttpClientAttempt(h, response) ==
    LET failed == [h EXCEPT !.lastError = response]
    IN  IF response.kind = "status" /\ response.status >= 200 /\ response.status < 300
        THEN [h EXCEPT !.pc = "returned"]
        ELSE IF response.kind = "rateLimit"
        THEN \* lines 109-112: sleep(waitTime), then continue
             [h EXCEPT !.pc = "sleep", !.sleeps = @ + 1]
        ELSE IF response.kind = "status" /\ response.status >= 500
        THEN \* lines 124-130, then line 152
             IF h.retries < maxRetries
             THEN [failed EXCEPT !.pc = "sleep", !.sleeps = @ + 1]
             ELSE NextAttempt([failed EXCEPT !.retries = @ + 1])
        ELSE IF HttpClientCatch(h, response)
        THEN [failed EXCEPT !.pc = "raised", !.raised = response]
        ELSE IF h.retries < maxRetries
        THEN [failed EXCEPT !.pc = "sleep", !.sleeps = @ + 1]
        ELSE NextAttempt([failed EXCEPT !.retries = @ + 1])

\* One iteration of the loop of apiRequest from the response on,
\* api/github.ts lines 57-127.  A rejection of httpRequest is not a
\* GitHubApiError and is thrown on.
ApiRequestAttempt(h, response) ==
    IF response.kind = "status" /\ response.status < 400
    THEN [h EXCEPT !.pc = "returned"]
    ELSE IF ShouldRetry(h, response)
    THEN [h EXCEPT !.pc = "sleep", !.sleeps = @ + 1, !.lastError = response]
    ELSE [h EXCEPT !.pc = "raised", !.raised = response, !.lastError = response]

\* request(url) or apiRequest(path) is called and sends its first attempt.
HttpRequest(client) ==
    /\ http.pc \in {"idle", "returned", "raised"}
    /\ http.requests < MaxHttpRequests
    /\ http' = [IdleHttp EXCEPT !.client = client, !.pc = "attempt",
                                !.requests = http.requests + 1]
    /\ UNCHANGED <<limiterVars, cacheVars, extractVars, generatorVars, exampleVars>>

\* The attempt in flight ends.
AttemptEnds(response) ==
    /\ http.pc = "attempt"
    /\ LET h == [http EXCEPT !.outcomes = Append(@, response)]
       IN  http' = IF http.client = "HttpClient" THEN HttpClientAttempt(h, response)
                   ELSE ApiRequestAttempt(h, response)
    /\ UNCHANGED <<limiterVars, cacheVars, extractVars, generatorVars, exampleVars>>

\* The sleep ends: the counter advances and the loop condition is tested.
SleepElapsed ==
    /\ http.pc = "sleep"
    /\ http' = NextAttempt([http EXCEPT !.retries = @ + 1])
    /\ UNCHANGED <<limiterVars, cacheVars, extractVars, generatorVars, exampleVars>>

NextHttp ==
    \/ \E client \in Clients : HttpRequest(client)
    \/ \E response \in AttemptOutcomes : AttemptEnds(response)
    \/ SleepElapsed

(***************************************************************************)
(* Example fetching: fetchResourceExamples and extractCodeBlocks           *)
(* (src/src/github.ts lines 332-424; part_015 lines 120-214 is the same    *)
(* loop over GitHubApiClient).  A text is the sequence of its tokens.      *)
(***************************************************************************)
\* Longest markdown document, in fenced blocks, and longest directory
\* listing, in files.
MaxBlocks == 2
MaxFiles == 2

\* extractCodeBlocks(markdownContent), github.ts lines 407-424.  The
\* document is given by what the regular expression captures from it: the
\* texts between the fences, in order.
extractCodeBlocks(markdownContent) ==
    LET RECURSIVE trim(_)
        trim(s) == IF s = <<>> THEN s
                   ELSE IF Head(s) \in {" ", "\n"} THEN trim(Tail(s))
                   ELSE IF s[Len(s)] \in {" ", "\n"} THEN trim(SubSeq(s, 1, Len(s) - 1))
                   ELSE s
        includes(code, word) == \E i \in DOMAIN code : code[i] = word
        RECURSIVE exec(_, _)
        exec(i, codeBlocks) ==
            IF i > Len(markdownContent) THEN codeBlocks
            ELSE LET code == trim(markdownContent[i])
                 IN  exec(i + 1,
                          IF \/ includes(code, "resource") \/ includes(code, "provider")
                             \/ includes(code, "data") \/ includes(code, "variable")
                          THEN Append(codeBlocks, code)
                          ELSE codeBlocks)
    IN  exec(1, <<>>)

\* fetchResourceExamples(provider, resource), github.ts lines 332-402, as a
\* function of what the remote side answers: answers.repo says whether
\* getRepoOrDiscover found a repository, answers.raw[i] whether the file
\* request for path i succeeded, answers.content and answers.markdown are
\* the bodies of the plain and markdown paths, answers.listing is what the
\* contents request returned for a plain path.
fetchResourceExamples(provider, resource, answers) ==
    LET possibleExamplePaths ==
            << <<"examples/", resource>>,
               <<"examples/resources/", resource>>,
               <<"examples/r/", resource>>,
               <<"examples/resources/", provider, "_", resource>>,
               <<"examples/r/", provider, "_", resource>>,
               <<"website/docs/resources/", resource, ".html.markdown">>,
               <<"website/docs/r/", resource, ".html.markdown">>,
               <<"website/docs/r/", provider, "_", resource, ".html.markdown">> >>
        endsWith(path, suffix) == path[Len(path)] = suffix
        RECURSIVE files(_, _)
        \* lines 370-376, and the catch of lines 381-384 when a file
        \* request fails
        files(k, examples) ==
            IF k > Len(answers.listing.files) THEN examples
            ELSE LET file == answers.listing.files[k]
                 IN  IF ~file.tf THEN files(k + 1, examples)
                     ELSE IF file.ok THEN files(k + 1, Append(examples, file.content))
                     ELSE Append(examples, answers.content)
        RECURSIVE paths(_, _)
        paths(i, examples) ==
            IF i > Len(possibleExamplePaths) THEN examples
            ELSE IF ~answers.raw[i] THEN paths(i + 1, examples)
            ELSE LET found ==
                         IF \/ endsWith(possibleExamplePaths[i], ".html.markdown")
                            \/ endsWith(possibleExamplePaths[i], ".md")
                         THEN examples \o extractCodeBlocks(answers.markdown)
                         ELSE IF answers.listing.kind = "array" THEN files(1, examples)
                         ELSE Append(examples, answers.content)
                 IN  IF Len(found) > 0 THEN found ELSE paths(i + 1, found)
    IN  IF ~answers.repo THEN <<>> ELSE paths(1, <<>>)

\* What the remote side can answer during one call.
ExampleAnswers ==
    LET Code == <<"resource", " ", "\"aws_instance\"", " ", "\"web\"", " ", "{}">>
        Captured == {Code, <<"\n">> \o Code \o <<"\n">>, <<"\n", "Run", " ", "terraform", " ", "apply">>}
        Documents == UNION {[1..n -> Captured] : n \in 0..MaxBlocks}
        File == {[tf |-> TRUE, ok |-> TRUE, content |-> Code],
                 [tf |-> TRUE, ok |-> FALSE, content |-> <<>>],
                 [tf |-> FALSE, ok |-> TRUE, content |-> <<"#", " ", "Examples">>]}
        Listings == {[kind |-> "error", files |-> <<>>], [kind |-> "file", files |-> <<>>]}
                    \cup {[kind |-> "array", files |-> f] :
                              f \in UNION {[1..n -> File] : n \in 0..MaxFiles}}
    IN  [repo : BOOLEAN, raw : [1..8 -> BOOLEAN], content : {Code},
         markdown : Documents, listing : Listings]

\* No call made: the value of fx outside the example runs.
IdleExamples ==
    [pc |-> "idle",
     answers |-> [repo |-> FALSE, raw |-> [i \in 1..8 |-> FALSE], content |-> <<>>,
                  markdown |-> <<>>, listing |-> [kind |-> "error", files |-> <<>>]],
     examples |-> <<>>]

\* One call of fetchResourceExamples for aws_instance under the answers of
\* the run.
FetchExamples ==
    /\ fx.pc = "idle"
    /\ fx' = [fx EXCEPT !.pc = "done",
                        !.examples = fetchResourceExamples("aws", "instance", fx.answers)]
    /\ UNCHANGED <<limiterVars, cacheVars, extractVars, generatorVars, httpVars>>

(***************************************************************************)
(* Specifications.                                                         *)
(***************************************************************************)
Init == InitLimiter /\ InitCache /\ InitExtract /\ gen = IdleGen /\ http = IdleHttp /\ fx = IdleExamples

SpecLimiter == Init /\ [][NextLimiter]_vars

SpecCache == Init /\ [][NextCache]_vars

\* The contents of a CacheService after set was called once for each of
\* BulkKeys, some of them in the tick before ConstructedAt and some of them
\* (again) at ConstructedAt.
Prefilled ==
    {[i \in DOMAIN BulkKeys |->
         [key |-> BulkKeys[i], data |-> "v1", timestamp |-> ts[i], ttl |-> DefaultTtl]] :
     ts \in [DOMAIN BulkKeys -> {ConstructedAt - 1, ConstructedAt}]}

\* Caching enabled, and either a cache constructed with maxSize =
\* EvictMaxSize, or a CacheService with maxSize = BulkMaxSize that already
\* holds the BulkKeys.
InitEvict ==
    /\ InitLimiter /\ InitExtract /\ gen = IdleGen /\ http = IdleHttp /\ fx = IdleExamples
    /\ enabled = TRUE
    /\ cache = <<>>
    /\ lastRead = NoRead
    /\ lastEvict = NoEvict
    /\ \/ /\ underTest \in {"Cache", "CacheService"}
          /\ maxSize = EvictMaxSize
          /\ serviceCache = <<>>
       \/ /\ underTest = "CacheService"
          /\ maxSize = BulkMaxSize
          /\ serviceCache \in Prefilled

SpecEvict == InitEvict /\ [][NextEvict]_vars

\* Extraction runs with caching enabled (config.cache.enabled, config.ts
\* line 18) over the Cache class.
InitCachingEnabled == Init /\ enabled = TRUE /\ underTest = "Cache"

SpecExtract == InitCachingEnabled /\ [][NextExtract]_vars

\* The runs of the github.ts implementation alone.
SpecGithub == InitCachingEnabled /\ [][NextGithub]_vars

\* parseGoSchema of github.ts applied to each of the DefinitionBodies.
SpecParse == InitCachingEnabled /\ [][NextParse]_vars

\* The tool requests handled by part_000 over the github.ts implementation.
SpecTool == InitCachingEnabled /\ [][NextTool]_vars

\* The generator called MaxGenerateCalls times with the same arguments.
InitGenerate ==
    /\ InitLimiter /\ InitCache /\ InitExtract /\ http = IdleHttp /\ fx = IdleExamples
    /\ enabled = TRUE /\ underTest = "Cache"
    /\ gen \in [impl : {"enhanced", "basic", "integration"}, provider : Providers,
                resource : {"instance"}, schema : Schemas,
                attributes : UserAttributes, texts : {<<>>}]

SpecGenerate == InitGenerate /\ [][Generate]_vars

\* The logical requests of both clients.  Every attempt ends, by a response,
\* a transport error or the timeout of the request (http-client.ts lines
\* 233-241, utils/http.ts lines 66-70), and every timer fires.
SpecHttp == Init /\ [][NextHttp]_vars /\ WF_vars(NextHttp)

\* One call of fetchResourceExamples under each combination of answers.
InitExamples ==
    /\ InitLimiter /\ InitCache /\ InitExtract /\ gen = IdleGen /\ http = IdleHttp
    /\ enabled = TRUE /\ underTest = "Cache"
    /\ fx \in [pc : {"idle"}, answers : ExampleAnswers, examples : {<<>>}]

SpecExamples == InitExamples /\ [][FetchExamples]_vars

(***************************************************************************)
(* Rate limiter claims.                                                    *)
(***************************************************************************)
GrantsWithin(from, width) ==
    Cardinality({i \in DOMAIN grantLog :
                    grantLog[i].at >= from /\ grantLog[i].at < from + width})

\* C6: in any rolling 60-second interval at most MAX_REQUESTS_PER_MINUTE
\* permits are granted, and in any rolling hour at most
\* MAX_REQUESTS_PER_HOUR.  A rolling interval holding the most permits can
\* always be slid to start at a grant, so intervals starting at grants
\* suffice.
C6_RollingCeilings ==
    \A i \in DOMAIN grantLog :
        /\ GrantsWithin(grantLog[i].at, MINUTE_MS) <= MAX_REQUESTS_PER_MINUTE
        /\ GrantsWithin(grantLog[i].at, HOUR_MS) <= MAX_REQUESTS_PER_HOUR

\* C8: permits are granted in arrival order: no call has its permit while a
\* call that arrived earlier is still waiting.
C8_ArrivalOrder ==
    \A c \in Callers : \A i \in DOMAIN grantLog :
        thr[c].pc # "idle" => thr[c].seq > grantLog[i].seq

\* C9: any two permits are at least MIN_INTERVAL apart.
C9_MinimumSpacing ==
    \A i, j \in DOMAIN grantLog :
        i < j => grantLog[j].at - grantLog[i].at >= MIN_INTERVAL

(***************************************************************************)
(* Schema extraction claims.                                               *)
(***************************************************************************)
Failed(kind) == kind \in {"networkError", "httpError", "noSchema"}

C2_NeverThrows ==
    ex.outcome.kind # "thrown"

\* C3: a failure on candidate i (network error, non-2xx status, nothing
\* parsed) does not end the extraction: for every i before the last,
\* candidate i+1 is attempted next.
C3_FailureAdvances ==
    \A i \in 1..(Len(possiblePaths(req.provider, req.resource)) - 1) :
        (ex.last.idx = i /\ Failed(ex.last.kind)) =>
            /\ ex.attempted >= i + 1
            /\ ex.inner.kind # "thrown"

\* C3 witness: candidate 13 failed with a network error and the request for
\* candidate 14 is in flight.
C3_Witness ==
    /\ ex.last = Attempt(13, "networkError", EmptyBody)
    /\ ex.stage = "candidate" /\ ex.idx = 14 /\ ex.pc = "request"

\* C4: in fetchResourceSchemaFromGithub the candidates are fetched one at a
\* time in list order (the request for candidate i+1 leaves only when the
\* attempt on candidate i has finished), and once a candidate yields
\* attributes no later path is fetched and its schema is the one returned.
C4_InOrderFirstWins ==
    req.impl = "github" =>
        /\ \A k \in DOMAIN ex.fetched : ex.fetched[k] = k
        /\ (ex.pc = "request" /\ ex.stage = "candidate") =>
               /\ ex.fetched[Len(ex.fetched)] = ex.idx
               /\ ex.idx > 1 => (ex.last.idx = ex.idx - 1 /\ Failed(ex.last.kind))
        /\ ex.last.kind = "found" =>
               /\ ex.pc = "done"
               /\ Len(ex.fetched) = ex.last.idx
               /\ ex.inner = InnerReturned(
                                 parseGoSchema("github", ex.last.content),
                                 possiblePaths(req.provider, req.resource)[ex.last.idx])

\* C4 witness: the third candidate was the first to yield attributes; three
\* fetches were made and its schema was returned.
C4_Witness ==
    /\ req.impl = "github"
    /\ ex.last.kind = "found" /\ ex.last.idx = 3
    /\ ex.fetched = <<1, 2, 3>>
    /\ ex.pc = "done"

\* C5: a call that repeats the previous call's provider and resource makes
\* no network fetch.
C5_SecondCallNoFetch ==
    ex.repeated => ex.fetchCount = 0

C10_NoExpiredRead ==
    lastRead.hit => lastRead.at - lastRead.timestamp <= lastRead.ttl

\* C10 witness: an entry past its TTL was still stored (no sweep had removed
\* it) and get answered absent.
C10_Witness ==
    /\ lastRead.op = "get"
    /\ lastRead.expired
    /\ ~lastRead.hit

(***************************************************************************)
(* Generator claims.                                                       *)
(***************************************************************************)
\* The positions in a text of the lines of the resource block that start
\* with the given attribute name.
ResourceLines(text, name) ==
    {i \in DOMAIN text : text[i].fragment = "resource" /\ text[i].name = name}

\* C12: an attribute of the schema whose name is on the sensitive deny-list
\* and for which the caller supplied no value is assigned on no line of the
\* generated text, whether it is required or optional.
C12_SensitiveNeverFilled ==
    \A k \in DOMAIN gen.texts : \A a \in DOMAIN gen.schema :
        (/\ gen.schema[a].name \in {"access_key", "secret_key", "password", "token"}
         /\ ~Provided(gen.attributes, gen.schema[a].name))
        => \A i \in ResourceLines(gen.texts[k], gen.schema[a].name) :
               ~gen.texts[k][i].assign

\* C13: an optional attribute of the schema for which the caller supplied
\* no value appears in no generated text.
C13_UnsuppliedOptionalAbsent ==
    \A k \in DOMAIN gen.texts : \A a \in DOMAIN gen.schema :
        (~gen.schema[a].required /\ ~Provided(gen.attributes, gen.schema[a].name))
        => ResourceLines(gen.texts[k], gen.schema[a].name) = {}

C15_Deterministic ==
    \A k, l \in DOMAIN gen.texts : gen.texts[k] = gen.texts[l]

\* C16: every attribute the caller supplied is written in the resource
\* block with the caller's value, whatever the schema: a string as name =
\* "value", an object as name = { ... } or as a block name { ... } holding
\* the caller's properties.
C16_SuppliedValuesRendered ==
    \A k \in DOMAIN gen.texts : \A a \in DOMAIN gen.attributes :
        LET text == gen.texts[k]
            name == gen.attributes[a].name
            value == gen.attributes[a].value
        IN  \E i \in ResourceLines(text, name) :
                IF value.type = "string"
                THEN text[i].assign /\ text[i].value = Quote(value.string)
                ELSE \/ text[i].assign /\ text[i].value = formatObject(value.entries)
                     \/ /\ ~text[i].assign
                        /\ i + Len(value.entries) <= Len(text)
                        /\ \A e \in DOMAIN value.entries :
                               text[i + e] = Line("nested", value.entries[e].key, TRUE,
                                                  Quote(value.entries[e].value))

(***************************************************************************)
(* Tool request claims.                                                    *)
(***************************************************************************)
\* C17: a schema or configuration request never gets an error response,
\* whatever the provider it names.
C17_NeverAnErrorResponse ==
    tool.name \in {"terraform_resource_schema", "terraform_generate_config"}
        => tool.response.kind # "error"

(***************************************************************************)
(* Repository resolution claims.                                           *)
(***************************************************************************)
\* C18: for a provider of the static table, getRepoOrDiscover returns the
\* entry of the table and sends no request: every request the call has sent
\* is the fetch of a file.  For aws the entry is hashicorp /
\* terraform-provider-aws / main.
C18_StaticTableNoNetwork ==
    LET table == IF req.impl = "github" THEN PROVIDER_REPOS ELSE ServiceProviderRepos
    IN  (callNo > 0 /\ req.useGithub /\ req.provider \in DOMAIN table) =>
            /\ ex.repo = table[req.provider]
            /\ ex.fetchCount = Len(ex.fetched)
            /\ req.provider = "aws" =>
                   ex.repo = [owner |-> "hashicorp", name |-> "terraform-provider-aws",
                              defaultBranch |-> "main"]

\* C18 witness: a call for aws has finished with the repository of the
\* table, having fetched files only.
C18_Witness ==
    /\ ex.pc = "done" /\ req.useGithub /\ req.provider = "aws"
    /\ ex.repo = PROVIDER_REPOS["aws"]
    /\ ex.fetchCount > 0 /\ ex.fetchCount = Len(ex.fetched)

\* C19: a call that repeats the previous call's arguments for a provider
\* outside the static table resolves the repository without a search
\* request: every request it has sent is the fetch of a file.  No time
\* passes between the two calls.
C19_SecondResolveNoSearch ==
    LET table == IF req.impl = "github" THEN PROVIDER_REPOS ELSE ServiceProviderRepos
    IN  (ex.repeated /\ req.useGithub /\ req.provider \notin DOMAIN table) =>
            ex.fetchCount = Len(ex.fetched)

\* C20: when the search request has failed for good (network error, error
\* status or a response that does not parse), getRepoOrDiscover returns null
\* to its caller: the call ends without a repository, and in the service
\* implementation with the ResourceNotFoundError that fetchResourceSchema
\* throws for a null repository.
C20_SearchFailureIsNotFound ==
    (ex.last.idx = 0 /\ ex.last.kind \in {"networkError", "httpError", "unparsable"}) =>
        /\ ex.resolved = "notFound"
        /\ IsNull(ex.repo)
        /\ ex.pc = "done"
        /\ req.impl = "service" => ex.inner.error = "ResourceNotFoundError"

\* C20 witness: in the service implementation the search was retried
\* maxRetries times and failed, and the call ended without a repository.
C20_Witness ==
    /\ req.impl = "service"
    /\ ex.last.idx = 0 /\ ex.last.kind = "httpError"
    /\ ex.retries = maxRetries
    /\ ex.resolved = "notFound"

(***************************************************************************)
(* HTTP client claims.                                                     *)
(***************************************************************************)
\* C21: a logical request makes at most maxRetries + 1 attempts, the one in
\* flight included, and every request that was started ends: it returns a
\* response or raises an error.
C21_BoundedAttempts ==
    /\ [](Len(http.outcomes) + (IF http.pc = "attempt" THEN 1 ELSE 0) <= maxRetries + 1)
    /\ [](http.pc \in {"attempt", "sleep"} => <>(http.pc \in {"returned", "raised"}))

\* C21 witness: a request that made maxRetries + 1 attempts and raised.
C21_Witness ==
    /\ http.pc = "raised"
    /\ Len(http.outcomes) = maxRetries + 1

C23_LastErrorRaised ==
    (http.pc = "raised" /\ Len(http.outcomes) = maxRetries + 1) =>
        http.raised = http.outcomes[maxRetries + 1]

\* C27: an attempt that ended with a transport error is not the last one of
\* its request unless it was attempt maxRetries + 1.
C27_NetworkErrorRetried ==
    \A i \in DOMAIN http.outcomes :
        (http.outcomes[i].kind = "network" /\ i <= maxRetries) =>
            ~(i = Len(http.outcomes) /\ http.pc = "raised")

(***************************************************************************)
(* Example fetching claims.                                                *)
(***************************************************************************)
\* C24: the list that fetchResourceExamples returned holds no text twice.
C24_NoDuplicateExamples ==
    fx.pc = "done" =>
        \A i, j \in DOMAIN fx.examples : fx.examples[i] = fx.examples[j] => i = j

(***************************************************************************)
(* Attribute parsing claims.                                               *)
(***************************************************************************)
\* C25: no attribute of an extracted schema has required and optional both
\* true.
C25_NotRequiredAndOptional ==
    HasAttributes(ex.inner.schema) =>
        \A n \in DOMAIN ex.inner.schema.attributes :
            ~(ex.inner.schema.attributes[n].required /\ ex.inner.schema.attributes[n].optional)

(***************************************************************************)
(* Permit claims.                                                          *)
(***************************************************************************)
\* C26: every request sent by a search or file call of the extraction,
\* retries included, was sent after a permit of its own was granted: the
\* call never has sent more requests than it was granted permits.
C26_PermitBeforeEveryRequest ==
    ex.sent <= ex.permits

C29_ReplaceEvictsNothing ==
    (/\ lastEvict.triggered
     /\ \/ \E i \in DOMAIN lastEvict.removed : lastEvict.removed[i].key = lastEvict.key
        \/ \E i \in DOMAIN lastEvict.kept : lastEvict.kept[i].key = lastEvict.key)
    => \A i \in DOMAIN lastEvict.removed : lastEvict.removed[i].key = lastEvict.key

\* C30: a getOrFetch call that finds the entry of its key stored and within
\* its TTL returns the stored value and does not invoke its fetcher,
\* whatever the stored value is.
C30_StoredValueNotRefetched ==
    (lastRead.op = "getOrFetch" /\ lastRead.hit) =>
        /\ ~lastRead.fetched
        /\ lastRead.returned = lastRead.value

====
